---- MODULE Spec2Model ----
(***************************************************************************)
(* Aakar3D: the ThreeJSViewer component                                    *)
(* (frontend/src/components/ThreeJSViewer.js).                             *)
(*                                                                         *)
(* The component is one React effect with dependencies                     *)
(* [modelData, width, height]: the effect body builds a three.js scene    *)
(* from modelData, attaches the renderer's canvas to the mount <div> and   *)
(* starts a requestAnimationFrame loop; the function it returns is the     *)
(* cleanup React calls before the next run of the effect and on unmount.   *)
(*                                                                         *)
(* JavaScript values: an absent property (undefined) is a record field     *)
(* that is not in the record's DOMAIN; a string that the code searches     *)
(* (name.includes) is a sequence of characters; a 3-vector is a tuple.     *)
(* Spreading an absent vector (...undefined) throws a TypeError.           *)
(***************************************************************************)
EXTENDS Integers, Sequences, FiniteSets, TLC

(***************************************************************************)
(* Bounds of the model                                                     *)
(***************************************************************************)
\* longest objects list of a scene description
MaxObjects == 2
\* effect runs (mount + updates) of one viewer
MaxRuns == 3
\* animation frame ids handed out by requestAnimationFrame
MaxFrames == 4
\* clock ticks (Date.now() readings)
MaxTime == 2

(***************************************************************************)
(* JavaScript helpers                                                      *)
(***************************************************************************)
Has(r, f) == f \in DOMAIN r

\* String.prototype.includes on character sequences
Includes(s, pat) ==
    \E i \in 1..(Len(s) - Len(pat) + 1) : SubSeq(s, i, i + Len(pat) - 1) = pat

TreeTag == <<"T", "r", "e", "e">>
DomeTag == <<"D", "o", "m", "e">>

\* the description is absent (modelData is null)
Null == [null |-> TRUE]

(***************************************************************************)
(* Program constants                                                       *)
(***************************************************************************)
DefaultCameraPosition == <<15, -15, 10>>
DefaultCameraTarget == <<0, 0, 3>>
DefaultSunPosition == <<10, 10, 20>>
\* scene.rotation.y += 0.003, in 1/1000 rad
RotationStep == 3
\* 0x222222 and 0x111111
GlowBase == 2236962
GlowAmplitude == 1118481
\* 0x228B22, the ground plane
GroundColor == 2263842
\* three.js keeps a material's colour white when color is undefined
WhiteColor == 16777215

\* the keys of the materials literal and their colours
Palette ==
    [foundation |-> 9127187, wall |-> 13808780, roof_traditional |-> 14423100,
     roof_modern |-> 7372944, roof_rajasthani |-> 13468991, window |-> 8900331,
     door |-> 9127187, door_frame |-> 6636321, balcony |-> 13808780,
     railing |-> 9127187, roof_detail |-> 11674146, dome |-> 14329120,
     courtyard |-> 16032864, pillar |-> 13808780, tree |-> 2263842]

PaletteKeys == DOMAIN Palette

\* materials is a plain object literal: a lookup of one of these keys finds
\* the member inherited from Object.prototype, which is truthy and no material
InheritedKeys ==
    {"constructor", "toString", "valueOf", "hasOwnProperty", "__proto__"}

(***************************************************************************)
(* Wall-clock animation values.  One clock tick is the time in which the   *)
(* tree phase Date.now() * 0.001 advances by pi/6; the dome phase          *)
(* Date.now() * 0.005 then advances by 5 pi/6.  Sin12[k] = 1000 sin(k      *)
(* pi/6), rounded.                                                         *)
(***************************************************************************)
Sin12 ==
    <<0, 500, 866, 1000, 866, 500, 0, -500, -866, -1000, -866, -500>>

\* Math.sin(Date.now() * 0.001) * 0.1, in 1/10000 rad
SwayAt(t) == Sin12[(t % 12) + 1]

\* 0x222222 + Math.sin(Date.now() * 0.005) * 0x111111, floored by setHex
GlowAt(t) == GlowBase + ((Sin12[((5 * t) % 12) + 1] * GlowAmplitude) \div 1000)

(***************************************************************************)
(* Scene construction (the effect body, lines 13-110)                      *)
(***************************************************************************)
\* modelData.camera || { position: [15, -15, 10], target: [0, 0, 3] }
CameraData(d) ==
    IF Has(d, "camera") THEN d.camera
    ELSE [position |-> DefaultCameraPosition, target |-> DefaultCameraTarget]

\* camera.position.set(...) or camera.lookAt(new Vector3(...)) throws
CameraThrows(d) ==
    ~Has(CameraData(d), "position") \/ ~Has(CameraData(d), "target")

\* mutant: the fallback is the camera's default position
LightDataCameraDefault(d) ==
    IF Has(d, "lighting") /\ Has(d.lighting, "sun") THEN d.lighting.sun
    ELSE [position |-> DefaultCameraPosition]

\* modelData.lighting?.sun || { position: [10, 10, 20] }
LightData(d) ==
    IF Has(d, "lighting") /\ Has(d.lighting, "sun") THEN d.lighting.sun
    ELSE [position |-> DefaultSunPosition]

LightThrows(d) == ~Has(LightData(d), "position")

\* modelData.objects?.forEach: an absent list is skipped
ObjectsOf(d) == IF Has(d, "objects") THEN d.objects ELSE <<>>

\* mutant: the pyramid branch is missing
GeometryForNoPyramid(o) ==
    IF Has(o, "type") /\ o.type = "box" THEN "BoxGeometry"
    ELSE IF Has(o, "type") /\ o.type = "sphere" THEN "SphereGeometry"
    ELSE IF Has(o, "type") /\ o.type = "cylinder" THEN "CylinderGeometry"
    ELSE "BoxGeometry"

\* the if / else-if chain on obj.type
GeometryFor(o) ==
    IF Has(o, "type") /\ o.type = "box" THEN "BoxGeometry"
    ELSE IF Has(o, "type") /\ o.type = "sphere" THEN "SphereGeometry"
    ELSE IF Has(o, "type") /\ o.type = "cylinder" THEN "CylinderGeometry"
    ELSE IF Has(o, "type") /\ o.type = "pyramid" THEN "ConeGeometry"
    ELSE "BoxGeometry"

\* a material instance: palette instances are shared by the meshes of one
\* run (serial 0), a material built for object i has serial i
PaletteMaterial(k) ==
    [kind |-> "palette", key |-> k, serial |-> 0, color |-> Palette[k]]

AdhocMaterial(o, i) ==
    [kind |-> "adhoc", key |-> "", serial |-> i,
     color |-> IF Has(o, "color") THEN o.color ELSE WhiteColor]

InheritedMember(k) ==
    [kind |-> "inherited", key |-> k, serial |-> 0, color |-> 0]

\* materials[obj.material] || new THREE.MeshLambertMaterial({ color: obj.color })
MaterialFor(o, i) ==
    IF Has(o, "material") /\ o.material \in PaletteKeys
        THEN PaletteMaterial(o.material)
    ELSE IF Has(o, "material") /\ o.material \in InheritedKeys
        THEN InheritedMember(o.material)
    ELSE AdhocMaterial(o, i)

NoMaterial == [kind |-> "none", key |-> "", serial |-> 0, color |-> 0]

\* mesh.position.set(...obj.position) or mesh.scale.set(...obj.scale) throws
ObjectThrows(o) == ~Has(o, "position") \/ ~Has(o, "scale")

\* the mesh of object i as scene.add receives it
MeshFor(o, i) ==
    [kind |-> "mesh", src |-> i,
     name |-> IF Has(o, "name") THEN o.name ELSE <<>>,
     geometry |-> GeometryFor(o), material |-> MaterialFor(o, i),
     position |-> o.position, scale |-> o.scale, rotZ |-> 0]

Light(pos) ==
    [kind |-> "light", src |-> 0, name |-> <<>>, geometry |-> "",
     material |-> NoMaterial, position |-> pos, scale |-> <<1, 1, 1>>,
     rotZ |-> 0]

GroundMaterial ==
    [kind |-> "adhoc", key |-> "", serial |-> 0, color |-> GroundColor]

\* ground.position.y = -0.5
Ground ==
    [kind |-> "mesh", src |-> 0, name |-> <<>>, geometry |-> "PlaneGeometry",
     material |-> GroundMaterial, position |-> <<0, "-0.5", 0>>,
     scale |-> <<1, 1, 1>>, rotZ |-> 0]

\* mutant: each mesh is put in front of the ones added so far
RECURSIVE AddObjectsNewestFirst(_, _)
AddObjectsNewestFirst(objs, i) ==
    IF i > Len(objs) \/ ObjectThrows(objs[i]) THEN <<>>
    ELSE AddObjectsNewestFirst(objs, i + 1) \o <<MeshFor(objs[i], i)>>

\* the forEach over modelData.objects from object i on: the meshes added
\* until the list ends or an object throws
RECURSIVE AddObjects(_, _)
AddObjects(objs, i) ==
    IF i > Len(objs) \/ ObjectThrows(objs[i]) THEN <<>>
    ELSE <<MeshFor(objs[i], i)>> \o AddObjects(objs, i + 1)

ObjectsThrow(d) == \E i \in 1..Len(ObjectsOf(d)) : ObjectThrows(ObjectsOf(d)[i])

\* where the effect body stops: at the statement that throws, or "done"
StopsAt(d) ==
    IF CameraThrows(d) THEN "camera"
    ELSE IF LightThrows(d) THEN "light"
    ELSE IF ObjectsThrow(d) THEN "objects"
    ELSE "done"

\* scene.children when the effect body stops
ChildrenBuilt(d) ==
    IF StopsAt(d) = "camera" THEN <<>>
    ELSE IF StopsAt(d) = "light" THEN <<Light(<<0, 0, 0>>)>>
    ELSE <<Light(<<0, 0, 0>>), Light(LightData(d).position)>>
         \o AddObjects(ObjectsOf(d), 1)
         \o (IF StopsAt(d) = "done" THEN <<Ground>> ELSE <<>>)

\* the camera when the effect body stops (a new camera is at the origin)
CameraBuilt(d) ==
    [position |-> IF Has(CameraData(d), "position")
                      THEN CameraData(d).position ELSE <<0, 0, 0>>,
     target |-> IF ~CameraThrows(d) THEN CameraData(d).target ELSE <<>>]

(***************************************************************************)
(* The animation frame (animate, lines 113-131)                            *)
(***************************************************************************)
\* the scene of a run: scene.rotation.y in 1/1000 rad, scene.children, the
\* emissive colour of each material instance a mesh refers to (black when
\* built), and the number of renderer.render calls
MaterialsOf(children) ==
    {children[i].material : i \in {j \in 1..Len(children) : children[j].kind = "mesh"}}

NewScene(children) ==
    [rotY |-> 0, children |-> children,
     emissive |-> [m \in MaterialsOf(children) |-> 0], renders |-> 0]

IsTree(child) == child.name # <<>> /\ Includes(child.name, TreeTag)
IsDome(child) == child.name # <<>> /\ Includes(child.name, DomeTag)

\* child.material.emissive is undefined: setHex throws a TypeError
GlowThrows(child) == child.material.kind \notin {"palette", "adhoc"}

\* scene.children.forEach from child i on, at clock reading t; st is
\* [children, emissive, threw]
RECURSIVE AnimateChildren(_, _, _)
AnimateChildren(st, i, t) ==
    IF i > Len(st.children) THEN st
    ELSE IF IsTree(st.children[i])
        THEN AnimateChildren(
                 [st EXCEPT !.children[i].rotZ = SwayAt(t)], i + 1, t)
    ELSE IF IsDome(st.children[i])
        THEN IF GlowThrows(st.children[i])
                 THEN [st EXCEPT !.threw = TRUE]
                 ELSE AnimateChildren(
                          [st EXCEPT !.emissive[st.children[i].material] = GlowAt(t)],
                          i + 1, t)
    ELSE AnimateChildren(st, i + 1, t)

\* the body of animate after the frame request: [scene, threw]
AnimateScene(scene, t) ==
    LET st == AnimateChildren(
                  [children |-> scene.children, emissive |-> scene.emissive,
                   threw |-> FALSE], 1, t)
    IN  [scene |-> [rotY |-> scene.rotY + RotationStep,
                    children |-> st.children,
                    emissive |-> st.emissive,
                    renders |-> IF st.threw THEN scene.renders
                                ELSE scene.renders + 1],
         threw |-> st.threw]

(***************************************************************************)
(* State                                                                   *)
(***************************************************************************)
VARIABLES
    phase,          \* "init", "mounted" or "unmounted"
    props,          \* [modelData, width, height] of the last render
    mountRef,       \* mountRef.current is the mount <div> (TRUE) or null
    mountChildren,  \* the canvases (by renderer id) that are children of the <div>
    sceneRef,       \* sceneRef.current: the run whose scene it holds, 0 = null
    rendererRef,    \* rendererRef.current: a renderer id, 0 = null
    animationRef,   \* animationRef.current: a frame id, 0 = null
    renderers,      \* every WebGLRenderer created: [run, disposed, stale]
    pending,        \* the frame callbacks the browser holds: [id, run]
    nextFrame,      \* the last id requestAnimationFrame returned
    runs,           \* the closures of the effect runs that are still reachable
    nRuns,          \* effect runs that built a scene so far
    cleanupOf,      \* the run whose cleanup React holds, 0 = none
    now,            \* the clock
    steps,          \* what the last commit did, in order
    fault           \* "none", or where an exception was thrown

\* the state of the Dashboard that hosts the viewer (Dashboard.js 8-12) and
\* the generation request it has sent
VARIABLES
    textInput,      \* the description typed so far
    isGenerating,   \* a request is being waited for
    generatedModel, \* the last model received, or Null
    error,          \* the message shown, "" for none
    generationMode, \* "text" or "form"
    request         \* the call of handleGenerate last started

dashVars ==
    <<textInput, isGenerating, generatedModel, error, generationMode, request>>

vars ==
    <<phase, props, mountRef, mountChildren, sceneRef, rendererRef,
      animationRef, renderers, pending, nextFrame, runs, nRuns, cleanupOf,
      now, steps, fault, dashVars>>

\* the part of the state the effect and its cleanup work on
World ==
    [mountRef |-> mountRef, mountChildren |-> mountChildren,
     sceneRef |-> sceneRef, rendererRef |-> rendererRef,
     animationRef |-> animationRef, renderers |-> renderers,
     pending |-> pending, nextFrame |-> nextFrame, runs |-> runs,
     nRuns |-> nRuns, cleanupOf |-> cleanupOf, steps |-> <<>>,
     fault |-> fault]

\* closures no frame callback and no later cleanup can reach are dropped
Reachable(W) ==
    [r \in {q \in DOMAIN W.runs :
                q = W.nRuns \/ \E f \in W.pending : f.run = q} |-> W.runs[r]]

Install(W) ==
    /\ mountChildren' = W.mountChildren
    /\ sceneRef' = W.sceneRef
    /\ rendererRef' = W.rendererRef
    /\ animationRef' = W.animationRef
    /\ renderers' = W.renderers
    /\ pending' = W.pending
    /\ nextFrame' = W.nextFrame
    /\ runs' = Reachable(W)
    /\ nRuns' = W.nRuns
    /\ cleanupOf' = W.cleanupOf
    /\ steps' = W.steps
    /\ fault' = W.fault

(***************************************************************************)
(* The cleanup function (lines 136-151)                                    *)
(***************************************************************************)
Log(W, op, arg) == [W EXCEPT !.steps = Append(@, <<op, arg>>)]

\* mutant: the pending frame is not cancelled
CancelFrameSkipped(W) == W

\* if (animationRef.current) cancelAnimationFrame(animationRef.current)
CancelFrame(W) ==
    IF W.animationRef # 0
        THEN Log([W EXCEPT !.pending = {f \in @ : f.id # W.animationRef}],
                 "cancel", W.animationRef)
        ELSE W

\* currentMount.removeChild(currentRenderer.domElement), guarded by
\* currentMount && currentRenderer; removeChild of a node that is no child
\* throws a NotFoundError
DetachCanvas(W) ==
    IF W.mountRef /\ W.rendererRef # 0
        THEN IF W.rendererRef \in W.mountChildren
                 THEN Log([W EXCEPT !.mountChildren = @ \ {W.rendererRef}],
                          "detach", W.rendererRef)
                 ELSE [W EXCEPT !.fault = "cleanup"]
        ELSE W

\* if (currentRenderer) currentRenderer.dispose()
DisposeRenderer(W) ==
    IF W.rendererRef # 0
        THEN Log([W EXCEPT !.renderers[W.rendererRef].disposed = @ + 1],
                 "dispose", W.rendererRef)
        ELSE W

\* mutant: the renderer is disposed before its canvas is detached
CleanupDisposeFirst(W) ==
    LET disposed == DisposeRenderer(CancelFrame(W))
    IN  DetachCanvas(disposed)

\* the cleanup function: cancel, detach, dispose; a throw ends it
Cleanup(W) ==
    LET detached == DetachCanvas(CancelFrame(W))
    IN  IF detached.fault = "cleanup" THEN detached
        ELSE DisposeRenderer(detached)

\* mutant: a cleanup that has run stays registered and runs again
RunCleanupKept(W) ==
    IF W.cleanupOf # 0 THEN Cleanup(W) ELSE W

\* React calls the cleanup of the previous run, when that run returned one
RunCleanup(W) ==
    IF W.cleanupOf # 0 THEN [Cleanup(W) EXCEPT !.cleanupOf = 0] ELSE W

(***************************************************************************)
(* The effect body (lines 10-135)                                          *)
(***************************************************************************)
\* new THREE.WebGLRenderer, setSize, rendererRef.current = renderer, and the
\* canvas replaces the content of the mount <div>
CreateRenderer(W, r, p) ==
    LET rid == Len(W.renderers) + 1
        made == Log([W EXCEPT
                        !.renderers = Append(@, [run |-> r, disposed |-> 0,
                                                 stale |-> 0,
                                                 size |-> <<p.width, p.height>>]),
                        !.rendererRef = rid],
                    "renderer", rid)
    IN  IF made.mountRef
            THEN Log([made EXCEPT !.mountChildren = {rid}], "attach", rid)
            ELSE made

\* animate(): request the next frame, then update and render the scene of
\* run r at clock reading t
Animate(W, r, t) ==
    LET id == W.nextFrame + 1
        res == AnimateScene(W.runs[r].scene, t)
        rid == W.runs[r].renderer
        late == ~res.threw /\ W.renderers[rid].disposed > 0
    IN  [W EXCEPT !.nextFrame = id,
                  !.animationRef = id,
                  !.pending = @ \cup {[id |-> id, run |-> r]},
                  !.runs[r].scene = res.scene,
                  !.renderers[rid].stale = IF late THEN @ + 1 ELSE @,
                  !.fault = IF res.threw THEN "animate" ELSE @]

\* the closure of run r once the effect body has stopped
RunRecord(d, rid) ==
    [desc |-> d, stage |-> StopsAt(d), renderer |-> rid,
     camera |-> CameraBuilt(d), scene |-> NewScene(ChildrenBuilt(d))]

\* the effect body for props p (modelData not null) as run r
BuildRun(W, p, r, t) ==
    LET d == p.modelData
        begun == Log([W EXCEPT !.sceneRef = r, !.nRuns = r], "scene", r)
        withRenderer == CreateRenderer(begun, r, p)
        rid == withRenderer.rendererRef
    IN  IF StopsAt(d) = "camera"
            THEN [begun EXCEPT !.runs = @ @@ (r :> RunRecord(d, 0)),
                               !.fault = "effect"]
        ELSE IF StopsAt(d) # "done"
            THEN [withRenderer EXCEPT !.runs = @ @@ (r :> RunRecord(d, rid)),
                                      !.fault = "effect"]
        ELSE LET built == [withRenderer EXCEPT
                              !.runs = @ @@ (r :> RunRecord(d, rid))]
                 started == Animate(built, r, t)
             IN  IF started.fault = "animate"
                     THEN [started EXCEPT !.fault = "effect"]
                     ELSE [started EXCEPT !.cleanupOf = r]

\* the effect: if (!modelData) return; otherwise build
RunEffect(W, p, t) ==
    IF p.modelData = Null THEN W
    ELSE BuildRun(W, p, W.nRuns + 1, t)

(***************************************************************************)
(* Inputs: scene descriptions and viewport sizes                           *)
(***************************************************************************)
OakTree1 == <<"O", "a", "k", "T", "r", "e", "e", "1">>
MainDome == <<"M", "a", "i", "n", "D", "o", "m", "e">>
DomeTree == <<"D", "o", "m", "e", "T", "r", "e", "e">>
Porch == <<"P", "o", "r", "c", "h">>

Origin == <<0, 0, 0>>
Unit == <<1, 1, 1>>
\* 0xFF0000
Red == 255 * 65536

\* scene objects: every type branch, palette / unknown / inherited material
\* keys, names with and without the animation tags, absent fields
ObjectOpts ==
    { [type |-> "box", material |-> "wall", position |-> Origin,
       scale |-> Unit, name |-> Porch],
      [type |-> "sphere", material |-> "wall", color |-> Red,
       position |-> Origin, scale |-> Unit, name |-> MainDome],
      [type |-> "cylinder", material |-> "granite", color |-> Red,
       position |-> Origin, scale |-> Unit, name |-> OakTree1],
      [type |-> "pyramid", material |-> "constructor", color |-> Red,
       position |-> Origin, scale |-> Unit, name |-> MainDome],
      [type |-> "torus", color |-> Red, position |-> Origin,
       scale |-> Unit, name |-> DomeTree],
      [material |-> "granite", position |-> Origin, scale |-> Unit],
      [type |-> "sphere", material |-> "dome", scale |-> Unit,
       name |-> MainDome],
      [type |-> "box", material |-> "tree", position |-> Origin,
       name |-> OakTree1] }

ObjectLists == UNION {[1..n -> ObjectOpts] : n \in 0..MaxObjects}

CameraOpts ==
    { [position |-> <<1, 2, 3>>, target |-> <<4, 5, 6>>],
      [position |-> <<1, 2, 3>>] }

LightingOpts ==
    { [sun |-> [position |-> <<7, 8, 9>>]],
      [sun |-> [intensity |-> 1]],
      [ambient |-> 1] }

\* a description carries any subset of camera, lighting and objects
Descriptions ==
    { c @@ l @@ o :
        c \in {<<>>} \cup {[camera |-> x] : x \in CameraOpts},
        l \in {<<>>} \cup {[lighting |-> x] : x \in LightingOpts},
        o \in {<<>>} \cup {[objects |-> x] : x \in ObjectLists} }

\* width = 600, height = 400 are the defaults; Dashboard passes 500 x 350
Sizes == {<<600, 400>>, <<500, 350>>}

PropsOf(D, S) ==
    {[modelData |-> d, width |-> s[1], height |-> s[2]] : d \in D, s \in S}

\* the descriptions a viewer is taken through during its life
LifeDescriptions ==
    { Null,
      [objects |-> <<[type |-> "box", material |-> "wall",
                      position |-> Origin, scale |-> Unit, name |-> OakTree1]>>],
      [camera |-> [position |-> <<1, 2, 3>>, target |-> <<4, 5, 6>>],
       objects |-> <<[type |-> "sphere", material |-> "dome",
                      position |-> Origin, scale |-> Unit, name |-> MainDome]>>],
      [objects |-> <<[type |-> "box", material |-> "wall", name |-> Porch]>>],
      [objects |-> <<[type |-> "box", material |-> "constructor",
                      position |-> Origin, scale |-> Unit, name |-> MainDome]>>] }

LifeProps == PropsOf(LifeDescriptions, Sizes)
BuildProps == PropsOf(Descriptions, {<<600, 400>>})

(***************************************************************************)
(* The life of one viewer                                                  *)
(***************************************************************************)
\* the component has been rendered with props from P and not yet committed:
\* the refs are created null
InitWith(P) ==
    /\ phase = "init"
    /\ props \in P
    /\ mountRef = FALSE
    /\ mountChildren = {}
    /\ sceneRef = 0
    /\ rendererRef = 0
    /\ animationRef = 0
    /\ renderers = <<>>
    /\ pending = {}
    /\ nextFrame = 0
    /\ runs = <<>>
    /\ nRuns = 0
    /\ cleanupOf = 0
    /\ now = 0
    /\ steps = <<>>
    /\ fault = "none"
    /\ textInput = <<>>
    /\ isGenerating = FALSE
    /\ generatedModel = Null
    /\ error = ""
    /\ generationMode = "text"
    /\ request = [status |-> "none"]

Init == InitWith(LifeProps)

BuildInit == InitWith(BuildProps)

\* an effect run that throws is not caught by the component: React removes
\* the tree, and the run that threw has returned no cleanup
AfterCommit(W) ==
    /\ Install(W)
    /\ phase' = IF W.fault = "none" THEN "mounted" ELSE "unmounted"
    /\ mountRef' = (W.fault = "none")

\* the first commit: the <div> is created, mountRef is set, the effect runs
Mount ==
    /\ phase = "init"
    /\ nextFrame < MaxFrames
    /\ AfterCommit(RunEffect([World EXCEPT !.mountRef = TRUE], props, now))
    /\ UNCHANGED <<props, now, dashVars>>

\* a render with props p of which modelData, width or height changed: the
\* cleanup of the previous run, then the effect
Update(p) ==
    /\ phase = "mounted"
    /\ p # props \/ p.modelData # Null
    /\ p.modelData # Null => nRuns < MaxRuns /\ nextFrame < MaxFrames
    /\ props' = p
    /\ AfterCommit(RunEffect(RunCleanup(World), p, now))
    /\ UNCHANGED <<now, dashVars>>

\* the viewer is removed; the cleanup finds mountRef.current cleared when
\* React detaches refs before it runs passive cleanups, set otherwise
Unmount(refCleared) ==
    /\ phase = "mounted"
    /\ Install(RunCleanup([World EXCEPT !.mountRef = ~refCleared]))
    /\ phase' = "unmounted"
    /\ mountRef' = FALSE
    /\ UNCHANGED <<props, now, dashVars>>

\* the browser calls the frame callback f
Frame(f) ==
    /\ f \in pending
    /\ nextFrame < MaxFrames
    /\ Install(Animate([World EXCEPT !.pending = @ \ {f}], f.run, now))
    /\ UNCHANGED <<phase, props, mountRef, now, dashVars>>

\* time passes, for as long as something is left that reads the clock
Tick ==
    /\ now < MaxTime
    /\ phase # "unmounted" \/ pending # {}
    /\ now' = now + 1
    /\ UNCHANGED <<phase, props, mountRef, mountChildren, sceneRef,
                   rendererRef, animationRef, renderers, pending, nextFrame,
                   runs, nRuns, cleanupOf, steps, fault, dashVars>>

Next ==
    \/ Mount
    \/ \E p \in LifeProps : Update(p)
    \/ \E c \in BOOLEAN : Unmount(c)
    \/ \E f \in pending : Frame(f)
    \/ Tick

Spec == Init /\ [][Next]_vars

\* one scene built from any description, animated, then removed
BuildNext ==
    \/ Mount
    \/ \E c \in BOOLEAN : Unmount(c)
    \/ \E f \in pending : Frame(f)
    \/ Tick

BuildSpec == BuildInit /\ [][BuildNext]_vars

(***************************************************************************)
(* Notions the properties use                                              *)
(***************************************************************************)
\* a scene has been built (or begun) from the current description
Built == phase # "init" /\ props.modelData # Null /\ nRuns \in DOMAIN runs

Current == runs[nRuns]

IsMesh(c) == c.kind = "mesh"
MeshesOf(run) == SelectSeq(run.scene.children, IsMesh)

\* render loops: callback chains the browser still holds
ActiveLoops == {f.run : f \in pending}

\* the renderer of the instance that is mounted and running
IsActive(rid) == phase = "mounted" /\ cleanupOf # 0 /\ cleanupOf = renderers[rid].run

OpsOf(s) == [i \in 1..Len(s) |-> s[i][1]]

\* this step replaces a running instance by a scene for a new description
Replaces == phase = "mounted" /\ cleanupOf # 0 /\ nRuns' = nRuns + 1

(***************************************************************************)
(* C1: whatever sequence of description and size changes a mounted viewer  *)
(* goes through, at most one render loop is active and at most one canvas  *)
(* is attached to the mount point.                                         *)
(***************************************************************************)
C1_SingleLoopSingleCanvas ==
    /\ Cardinality(pending) <= 1
    /\ Cardinality(mountChildren) <= 1

\* a second scene has replaced the first and runs alone
C1_Witness ==
    /\ phase = "mounted"
    /\ nRuns >= 2
    /\ ActiveLoops = {nRuns}
    /\ Cardinality(pending) = 1
    /\ mountChildren = {rendererRef}

(***************************************************************************)
(* C2: after the viewer is unmounted no frame callback is pending and the  *)
(* canvas is no child of the mount point, also when mountRef.current was   *)
(* already cleared when the cleanup ran.                                   *)
(***************************************************************************)
C2_UnmountStopsAndDetaches ==
    (phase = "unmounted" /\ fault = "none") =>
        /\ pending = {}
        /\ mountChildren = {}

(***************************************************************************)
(* C3: on every exit path (unmount, an error thrown during construction    *)
(* after the renderer was attached, replacement by a new description) the  *)
(* teardown is done: every renderer that is not the running instance's is  *)
(* disposed, its canvas is not in the mount point and its loop is          *)
(* cancelled.                                                              *)
(***************************************************************************)
C3_TeardownOnEveryExit ==
    \A rid \in 1..Len(renderers) :
        ~IsActive(rid) =>
            /\ renderers[rid].disposed >= 1
            /\ rid \notin mountChildren
            /\ renderers[rid].run \notin ActiveLoops

(***************************************************************************)
(* C4: when a new description replaces the current one, the old instance   *)
(* is torn down in the order cancel the frame, dispose the renderer,       *)
(* detach the canvas, and all three are done before the first construction *)
(* step of the replacement.                                                *)
(***************************************************************************)
C4_CancelDisposeDetach ==
    [][Replaces =>
          /\ Len(steps') >= 4
          /\ SubSeq(OpsOf(steps'), 1, 4) = <<"cancel", "dispose", "detach", "scene">>]_vars

\* C4 as amended: the order is cancel the frame, detach the canvas, dispose
\* the renderer, each applied to the old instance's own frame and renderer,
\* and all three are done before the first construction step
C4_CancelDetachDispose ==
    [][Replaces =>
          /\ Len(steps') >= 4
          /\ SubSeq(steps', 1, 4) =
                 << <<"cancel", animationRef>>,
                    <<"detach", runs[cleanupOf].renderer>>,
                    <<"dispose", runs[cleanupOf].renderer>>,
                    <<"scene", nRuns + 1>> >>
          /\ animationRef \in {f.id : f \in pending}]_vars

\* a replacement has just been committed
C4_Witness ==
    /\ nRuns >= 2
    /\ Len(steps) >= 4
    /\ OpsOf(steps)[1] = "cancel"
    /\ OpsOf(steps)[4] = "scene"
    /\ phase = "mounted"

(***************************************************************************)
(* C5: construction completes without throwing for every scene             *)
(* description, malformed object entries and incomplete optional sections  *)
(* included, and the animation loop is started in every case.              *)
(***************************************************************************)
C5_ConstructionNeverThrows ==
    Built =>
        /\ Current.stage = "done"
        /\ Current.scene.rotY >= RotationStep

(***************************************************************************)
(* C6: on every frame that is rendered, every child whose name contains    *)
(* "Tree" has its sway rotation set from the current time and every child  *)
(* whose name contains "Dome" has its emissive value set from the current  *)
(* time, a name that contains both included.                               *)
(***************************************************************************)
RenderedBy(r) ==
    runs'[r].scene.renders =
        (IF r \in DOMAIN runs THEN runs[r].scene.renders ELSE 0) + 1

C6_TreeSwaysDomeGlows ==
    [][nextFrame' = nextFrame + 1 =>
          \A f \in pending' :
              (f.id = nextFrame' /\ RenderedBy(f.run)) =>
                  \A i \in DOMAIN runs'[f.run].scene.children :
                      LET c == runs'[f.run].scene.children[i]
                      IN  /\ IsTree(c) => c.rotZ = SwayAt(now)
                          /\ IsDome(c) =>
                                 runs'[f.run].scene.emissive[c.material] = GlowAt(now)]_vars

(***************************************************************************)
(* The SceneDescription shape of the data model: a camera has position and *)
(* target, a sun has position, every object has position and scale.        *)
(***************************************************************************)
WellFormed(d) ==
    /\ Has(d, "camera") => Has(d.camera, "position") /\ Has(d.camera, "target")
    /\ (Has(d, "lighting") /\ Has(d.lighting, "sun")) => Has(d.lighting.sun, "position")
    /\ Has(d, "objects") =>
           \A i \in 1..Len(d.objects) :
               Has(d.objects[i], "position") /\ Has(d.objects[i], "scale")

(***************************************************************************)
(* C7: from a scene description with N objects (N = 0 when the list is     *)
(* empty or absent) construction adds exactly N+1 meshes: one per object,  *)
(* in the order of the list, followed by the single ground plane.          *)
(***************************************************************************)
C7_OneMeshPerObjectPlusGround ==
    (Built /\ WellFormed(props.modelData)) =>
        LET n == IF Has(props.modelData, "objects")
                     THEN Len(props.modelData.objects) ELSE 0
            m == MeshesOf(Current)
        IN  /\ Len(m) = n + 1
            /\ \A i \in 1..n :
                   /\ m[i].src = i
                   /\ m[i].position = props.modelData.objects[i].position
                   /\ m[i].geometry # "PlaneGeometry"
            /\ m[n + 1].geometry = "PlaneGeometry"
            /\ m[n + 1].src = 0

\* two objects and the ground plane
C7_Witness ==
    /\ Built
    /\ WellFormed(props.modelData)
    /\ Has(props.modelData, "objects")
    /\ Len(props.modelData.objects) = 2
    /\ Len(MeshesOf(Current)) = 3

(***************************************************************************)
(* C8: every scene object resolves to exactly one geometry chosen by its   *)
(* type: box, sphere, cylinder and pyramid to their own geometry, any      *)
(* other type value and a missing type to box geometry.                    *)
(***************************************************************************)
C8_GeometryByType ==
    Built =>
        \A i \in 1..Len(MeshesOf(Current)) :
            LET mesh == MeshesOf(Current)[i]
                o == props.modelData.objects[mesh.src]
            IN  mesh.src # 0 =>
                    /\ (Has(o, "type") /\ o.type = "box") => mesh.geometry = "BoxGeometry"
                    /\ (Has(o, "type") /\ o.type = "sphere") => mesh.geometry = "SphereGeometry"
                    /\ (Has(o, "type") /\ o.type = "cylinder") => mesh.geometry = "CylinderGeometry"
                    /\ (Has(o, "type") /\ o.type = "pyramid") => mesh.geometry = "ConeGeometry"
                    /\ (~Has(o, "type") \/ o.type \notin {"box", "sphere", "cylinder", "pyramid"})
                           => mesh.geometry = "BoxGeometry"

\* an unrecognised type and a missing type both built as boxes
C8_Witness ==
    /\ Built
    /\ \E i, j \in 1..Len(MeshesOf(Current)) :
           LET a == MeshesOf(Current)[i]
               b == MeshesOf(Current)[j]
           IN  /\ a.src # 0 /\ b.src # 0
               /\ Has(props.modelData.objects[a.src], "type")
               /\ props.modelData.objects[a.src].type = "torus"
               /\ ~Has(props.modelData.objects[b.src], "type")
               /\ a.geometry = "BoxGeometry"
               /\ b.geometry = "BoxGeometry"

(***************************************************************************)
(* C9: for every scene object whose material key is not a name of the      *)
(* palette and whose color is defined, the mesh's material is a newly      *)
(* built material whose colour is the object's color, for every            *)
(* non-palette key, keys that name built-in object properties included.    *)
(***************************************************************************)
C9_UnknownMaterialTakesColor ==
    Built =>
        \A i \in 1..Len(MeshesOf(Current)) :
            LET mesh == MeshesOf(Current)[i]
                o == props.modelData.objects[mesh.src]
            IN  (mesh.src # 0 /\ Has(o, "color")
                     /\ (~Has(o, "material") \/ o.material \notin PaletteKeys)) =>
                    /\ mesh.material.kind = "adhoc"
                    /\ mesh.material.serial = mesh.src
                    /\ mesh.material.color = o.color

(***************************************************************************)
(* C10: a description without camera puts the camera at (15,-15,10)        *)
(* looking at (0,0,3); one without lighting.sun (or without lighting) puts *)
(* the directional light at (10,10,20); a section that is present supplies *)
(* its own values instead.                                                 *)
(***************************************************************************)
C10_CameraAndSunDefaults ==
    Built =>
        LET d == props.modelData
            sunGiven == Has(d, "lighting") /\ Has(d.lighting, "sun")
            cameraWhole == Has(d, "camera") /\ Has(d.camera, "position")
                               /\ Has(d.camera, "target")
        IN  /\ ~Has(d, "camera") =>
                   /\ Current.camera.position = <<15, -15, 10>>
                   /\ Current.camera.target = <<0, 0, 3>>
            /\ cameraWhole =>
                   /\ Current.camera.position = d.camera.position
                   /\ Current.camera.target = d.camera.target
            /\ (~Has(d, "camera") \/ cameraWhole) =>
                   /\ Len(Current.scene.children) >= 1
                   /\ ~sunGiven =>
                          /\ Len(Current.scene.children) >= 2
                          /\ Current.scene.children[2].kind = "light"
                          /\ Current.scene.children[2].position = <<10, 10, 20>>
                   /\ (sunGiven /\ Has(d.lighting.sun, "position")) =>
                          /\ Len(Current.scene.children) >= 2
                          /\ Current.scene.children[2].kind = "light"
                          /\ Current.scene.children[2].position = d.lighting.sun.position

\* a description that has lighting but no sun, and no camera
C10_Witness ==
    /\ Built
    /\ ~Has(props.modelData, "camera")
    /\ Has(props.modelData, "lighting")
    /\ ~Has(props.modelData.lighting, "sun")
    /\ Current.camera.position = <<15, -15, 10>>
    /\ Current.scene.children[2].position = <<10, 10, 20>>

(***************************************************************************)
(* Steps of the frame loop                                                 *)
(***************************************************************************)
\* this step constructs a scene completely (and so calls animate once)
BuildStep == nRuns' = nRuns + 1 /\ runs'[nRuns'].stage = "done"

\* this step is the browser calling a frame callback
FrameStep == nextFrame' = nextFrame + 1 /\ nRuns' = nRuns

CallbacksOf(P, r) == {g \in P : g.run = r}

(***************************************************************************)
(* C11: the frame callback is registered once when a scene is constructed  *)
(* and each frame that fires re-arms exactly one next callback; every      *)
(* frame that fires advances the scene's rotation by one fixed increment   *)
(* and renders once; the loop stops only when the teardown cancels it.     *)
(***************************************************************************)
C11_FrameLoop ==
    [][/\ BuildStep => Cardinality(CallbacksOf(pending', nRuns')) = 1
       /\ FrameStep =>
              \A f \in pending \ pending' :
                  /\ Cardinality(CallbacksOf(pending', f.run)) = 1
                  /\ runs'[f.run].scene.rotY = runs[f.run].scene.rotY + RotationStep
                  /\ runs'[f.run].scene.renders = runs[f.run].scene.renders + 1
       /\ \A f \in pending :
              \/ CallbacksOf(pending', f.run) # {}
              \/ \E i \in 1..Len(steps') : steps'[i] = <<"cancel", f.id>>]_vars

(***************************************************************************)
(* C12: across frames the palette stays as constructed except for the      *)
(* emissive tint of Dome-tagged objects: a mesh whose name does not        *)
(* contain "Dome" has the same material, emissive colour included, after   *)
(* every frame as before it, whatever else the scene contains.             *)
(***************************************************************************)
C12_OnlyDomesGlow ==
    [][(BuildStep \/ FrameStep) =>
          \A g \in pending' \ pending :
              \A i \in DOMAIN runs'[g.run].scene.children :
                  LET c == runs'[g.run].scene.children[i]
                      before == IF g.run \in DOMAIN runs
                                    THEN runs[g.run].scene.emissive[c.material]
                                    ELSE 0
                  IN  (c.kind = "mesh" /\ ~IsDome(c)) =>
                          /\ runs'[g.run].scene.emissive[c.material] = before
                          /\ g.run \in DOMAIN runs =>
                                 c.material = runs[g.run].scene.children[i].material]_vars

\* the frame ids of the callbacks run r has pending
FrameIdsOf(r) == {g.id : g \in CallbacksOf(pending, r)}

(***************************************************************************)
(* C13: the renderer and frame-id refs are shared by all effect runs, yet  *)
(* after any sequence of description changes (to and from an absent        *)
(* description), size changes and unmount each cleanup acts on the         *)
(* renderer and the frame id of its own run: while a cleanup is registered *)
(* the refs hold its run's renderer and its run's pending frame, no        *)
(* renderer is disposed more than once, and no frame is rendered with a    *)
(* renderer that was already disposed.                                     *)
(***************************************************************************)
C13_CleanupActsOnOwnRun ==
    /\ \A rid \in DOMAIN renderers :
           /\ renderers[rid].disposed <= 1
           /\ renderers[rid].stale = 0
    /\ cleanupOf # 0 =>
           /\ rendererRef = runs[cleanupOf].renderer
           /\ renderers[rendererRef].disposed = 0
           /\ FrameIdsOf(cleanupOf) = {animationRef}
           /\ pending = CallbacksOf(pending, cleanupOf)

\* an absent description was replaced by a scene, frames were rendered, and
\* the viewer was removed: two runs, each renderer disposed by its own cleanup
C13_Witness ==
    /\ phase = "unmounted"
    /\ fault = "none"
    /\ Len(renderers) >= 2
    /\ \A rid \in DOMAIN renderers : renderers[rid].disposed = 1
    /\ nextFrame > Len(renderers)
    /\ pending = {}

(***************************************************************************)
(* The Dashboard: text, values received from the service                   *)
(***************************************************************************)
\* a text is a sequence of pieces, each a run of white space (Space) or a
\* run of characters that begins and ends with a visible one
Space == " "

RECURSIVE TrimStart(_)
TrimStart(s) ==
    IF s # <<>> /\ Head(s) = Space THEN TrimStart(Tail(s)) ELSE s

RECURSIVE TrimEnd(_)
TrimEnd(s) ==
    IF s # <<>> /\ s[Len(s)] = Space
        THEN TrimEnd(SubSeq(s, 1, Len(s) - 1))
        ELSE s

\* String.prototype.trim
Trim(s) == TrimEnd(TrimStart(s))

Digit(d) == <<"0", "1", "2", "3", "4", "5", "6", "7", "8", "9">>[d + 1]

RECURSIVE Digits(_)
Digits(n) ==
    IF n < 10 THEN <<Digit(n)>> ELSE Digits(n \div 10) \o <<Digit(n % 10)>>

\* Number.prototype.toFixed(3) of n ten-thousandths: three decimals, rounded
ToFixed3(n) ==
    LET r == (n + 5) \div 10
    IN  Digits(r \div 1000)
            \o <<".", Digit((r \div 100) % 10), Digit((r \div 10) % 10),
                 Digit(r % 10)>>

\* x || fallback for a property holding a string
Truthy(r, f) == Has(r, f) /\ r[f] # ""

EmptyTextError == "Please enter some text to generate a 3D model"
HouseModelError == "Failed to generate house model"
RequestError == "Failed to generate 3D model. Please try again."

\* what the textarea can hold after typing
TypedTexts ==
    { <<>>, <<Space>>, <<"villa">>, <<Space, "villa", Space>> }

\* the texts of the example buttons
ExampleTexts ==
    { <<"A traditional Kerala house with 2 floors, wooden balcony, and red tile roof">>,
      <<"A modern glass villa with 3 floors, swimming pool, and garden">>,
      <<"A royal Rajasthani haveli with courtyard, domes, and sandstone walls">>,
      <<"A small cottage with garden, single floor, and wooden doors">> }

\* what AdvancedForm hands to onGenerate
FormData ==
    { [style |-> "modern", house_type |-> "villa"],
      [house_type |-> "cottage"] }

\* response.data.data of a successful response; processing_time is a number
\* of ten-thousandths of a second, or not a number
MlData ==
    { <<>>,
      [attributes |-> [floors |-> 2], files |-> <<"house.obj">>,
       processing_time |-> [num |-> 12346],
       model_data |-> [objects |-> <<>>],
       form_config |-> [style |-> "modern"]],
      [processing_time |-> [num |-> 0], files |-> <<>>],
      [processing_time |-> [str |-> "1.2"]] }

\* response.data
ResponseData ==
    { <<>>,
      [success |-> FALSE],
      [success |-> FALSE, message |-> ""],
      [success |-> FALSE, message |-> "No house found in description"],
      [success |-> TRUE] }
    \cup {[success |-> TRUE, data |-> m] : m \in MlData}

\* what axios.post rejects with
RequestFailures ==
    { [message |-> "Network Error"],
      [response |-> [status |-> 500]],
      [response |-> [data |-> [detail |-> "x"]]],
      [response |-> [data |-> [message |-> ""]]],
      [response |-> [data |-> [message |-> "ML service unavailable"]]] }

\* how the awaited axios.post ends
Outcomes ==
    {[response |-> [data |-> d]] : d \in ResponseData}
        \cup {[thrown |-> e] : e \in RequestFailures}


(***************************************************************************)
(* handleGenerate (Dashboard.js 19-66)                                     *)
(***************************************************************************)
\* the four pieces of state handleGenerate writes
Dash ==
    [textInput |-> textInput, isGenerating |-> isGenerating,
     generatedModel |-> generatedModel, error |-> error]

InstallDash(D) ==
    /\ textInput' = D.textInput
    /\ isGenerating' = D.isGenerating
    /\ generatedModel' = D.generatedModel
    /\ error' = D.error

\* `${x}` of a property that may be absent
Interpolated(r, f) == IF Has(r, f) THEN r[f] ELSE "undefined"

\* mlData.processing_time ? `${mlData.processing_time.toFixed(3)}s` : 'N/A'
ProcessingTime(ml) ==
    IF Has(ml, "processing_time") /\ ml.processing_time # [num |-> 0]
        THEN ToFixed3(ml.processing_time.num) \o <<"s">>
        ELSE <<"N/A">>

\* building the model throws a TypeError: mlData is undefined, or
\* processing_time is truthy and has no toFixed
SuccessThrows(d) ==
    \/ ~Has(d, "data")
    \/ /\ Has(d.data, "processing_time")
       /\ ~Has(d.data.processing_time, "num")

\* the object given to setGeneratedModel
ModelOf(data, mode, ml, t) ==
    [text |-> IF mode = "form"
                  THEN <<"Custom", Space, Interpolated(data, "style"), Space,
                         Interpolated(data, "house_type")>>
                  ELSE data,
     attributes |-> IF Has(ml, "attributes") THEN ml.attributes ELSE <<>>,
     files |-> IF Has(ml, "files") THEN ml.files ELSE <<>>,
     processingTime |-> ProcessingTime(ml),
     timestamp |-> [iso |-> t],
     modelData |-> IF Has(ml, "model_data") THEN ml.model_data ELSE Null,
     formConfig |-> IF Has(ml, "form_config") THEN ml.form_config ELSE Null]

\* err.response?.data?.message || 'Failed to generate 3D model. ...'
ThrownMessage(e) ==
    IF Has(e, "response") /\ Has(e.response, "data")
           /\ Truthy(e.response.data, "message")
        THEN e.response.data.message
        ELSE RequestError

\* the response says success
SaysSuccess(d) == Has(d, "success") /\ d.success

\* the request failed: it threw, its response was not a success, or handling
\* the response threw
Failed(o) ==
    \/ Has(o, "thrown")
    \/ ~SaysSuccess(o.response.data)
    \/ SuccessThrows(o.response.data)

\* handleGenerate up to the await: setIsGenerating(true), setError('')
GenerateBegin(D) == [D EXCEPT !.isGenerating = TRUE, !.error = ""]

\* handleGenerate from the await on, the request having ended as o:
\* try / catch, then finally
GenerateEnd(D, data, mode, o, t) ==
    LET tried ==
            IF Has(o, "thrown")
                THEN [D EXCEPT !.error = ThrownMessage(o.thrown)]
            ELSE IF ~SaysSuccess(o.response.data)
                THEN [D EXCEPT !.error =
                          IF Truthy(o.response.data, "message")
                              THEN o.response.data.message
                              ELSE HouseModelError]
            ELSE IF SuccessThrows(o.response.data)
                THEN [D EXCEPT !.error = RequestError]
            ELSE [D EXCEPT
                     !.generatedModel =
                         ModelOf(data, mode, o.response.data.data, t),
                     !.textInput = IF mode = "text" THEN <<>> ELSE @,
                     !.error = ""]
    IN  [tried EXCEPT !.isGenerating = FALSE]


(***************************************************************************)
(* The Dashboard's handlers and the request in flight                      *)
(***************************************************************************)
viewerVars ==
    <<phase, props, mountRef, mountChildren, sceneRef, rendererRef,
      animationRef, renderers, pending, nextFrame, runs, nRuns, cleanupOf,
      steps, fault>>

\* a call of handleGenerate(data, mode) begins; the record keeps what the
\* state was when it began
StartRequest(data, mode) ==
    /\ InstallDash(GenerateBegin(Dash))
    /\ request' = [status |-> "inflight", data |-> data, mode |-> mode,
                   textBefore |-> textInput, modelBefore |-> generatedModel]

\* the textarea's onChange; the textarea is disabled while generating
HandleInputChange(v) ==
    /\ generationMode = "text"
    /\ ~isGenerating
    /\ textInput' = v
    /\ error' = ""
    /\ UNCHANGED <<isGenerating, generatedModel, generationMode, request,
                   viewerVars, now>>

\* an example button: setTextInput(t)
ExampleClick(t) ==
    /\ generationMode = "text"
    /\ textInput' = t
    /\ UNCHANGED <<isGenerating, generatedModel, error, generationMode,
                   request, viewerVars, now>>

\* a button of the mode switcher
SetGenerationMode(m) ==
    /\ generationMode' = m
    /\ UNCHANGED <<textInput, isGenerating, generatedModel, error, request,
                   viewerVars, now>>

\* the generate button, disabled while generating or without text
HandleTextToModel ==
    /\ generationMode = "text"
    /\ ~isGenerating
    /\ Trim(textInput) # <<>>
    /\ IF Trim(textInput) = <<>>
           THEN /\ error' = EmptyTextError
                /\ UNCHANGED <<textInput, isGenerating, generatedModel,
                               request>>
           ELSE StartRequest(textInput, "text")
    /\ UNCHANGED <<generationMode, viewerVars, now>>

\* AdvancedForm calls onGenerate(data, 'form'); it is given isGenerating
FormSubmit(data) ==
    /\ generationMode = "form"
    /\ ~isGenerating
    /\ StartRequest(data, "form")
    /\ UNCHANGED <<generationMode, viewerVars, now>>

\* the awaited request ends as o and handleGenerate runs to its end
Settle(o) ==
    /\ request.status = "inflight"
    /\ InstallDash(GenerateEnd(Dash, request.data, request.mode, o, now))
    /\ request' = [request EXCEPT
                       !.status = IF Failed(o) THEN "failed" ELSE "succeeded"]
    /\ UNCHANGED <<generationMode, viewerVars, now>>

DashInit ==
    InitWith({[modelData |-> Null, width |-> 500, height |-> 350]})

DashNext ==
    \/ \E v \in TypedTexts : HandleInputChange(v)
    \/ \E t \in ExampleTexts : ExampleClick(t)
    \/ \E m \in {"text", "form"} : SetGenerationMode(m)
    \/ HandleTextToModel
    \/ \E data \in FormData : FormSubmit(data)
    \/ \E o \in Outcomes : Settle(o)
    \/ Tick

DashSpec == DashInit /\ [][DashNext]_vars

\* handleGenerate writes neither the text nor the model on its failure path,
\* sets a message and clears isGenerating; while it waits only the example
\* buttons write the text and nothing writes the model
FailurePathWrites ==
    [][/\ (request.status = "inflight" /\ request'.status = "failed") =>
              /\ error' # ""
              /\ ~isGenerating'
              /\ textInput' = textInput
              /\ generatedModel' = generatedModel
       /\ (request.status = "inflight" /\ request'.status = "inflight") =>
              /\ isGenerating'
              /\ generatedModel' = generatedModel
              /\ textInput' = textInput \/ textInput' \in ExampleTexts]_vars

(***************************************************************************)
(* C14: for every generation request started by handleGenerate that fails  *)
(* (success false, or the request throws), when the request has finished   *)
(* error is a non-empty message, generatedModel and textInput have the     *)
(* values they had before the request, and isGenerating is false.          *)
(***************************************************************************)
C14_FailedRequestKeepsState ==
    [][(request.status = "inflight" /\ request'.status = "failed") =>
          /\ error' # ""
          /\ ~isGenerating'
          /\ generatedModel' = request.modelBefore
          /\ textInput' = request.textBefore]_vars

====
